---- MODULE Spec2Model ----
(***************************************************************************)
(* A model of Load's Search (src/src/loads_search): the crawler, the       *)
(* content extractor, the metadata snapshot, the activity logger, the      *)
(* index builder and the query engine.                                     *)
(*                                                                         *)
(* Text is a sequence of one-character strings, so that slicing, trimming  *)
(* and replacing are computed and not assumed.  None is <<>> and a present *)
(* optional value x is <<x>>.                                              *)
(***************************************************************************)
EXTENDS Integers, Sequences, FiniteSets, TLC

VARIABLES
    \* ---- query engine, one hit (indexer.py 270-278)
    hit,            \* the stored fields of the hit being formatted
    out,            \* None, or <<the result tuple built from hit>>
    \* ---- configuration and filesystem (crawler.py)
    folders,            \* config folders_to_index: a list of folder names
    exclude_patterns,   \* config exclude_patterns: a list of patterns
    max_file_size_kb,   \* config max_file_size_kb
    fileSize,           \* st_size of every file of the tree
    statFails,          \* the files whose path.stat() raises OSError
    walkFails,          \* the entries at which walking the tree raises OSError
    crawlTrace,         \* None, or <<what crawl yielded, each with its root>>
    \* ---- content extractor (indexer.py 24-165)
    rcFile,         \* the file given to _read_content and what its reads do
    rcPc,           \* where _read_content is
    rcResult,       \* None, or <<what _read_content returned or raised>>
    wPc,            \* the pdfplumber worker thread: none, open, pages, finish,
                    \*   hung (inside a page extraction that never completes), done
    wPage,          \* the page the worker is at
    wParts,         \* len(text_parts) of the worker
    wLen,           \* len("\n".join(text_parts)) of the worker
    wQueue,         \* result_queue: None, or <<the item the worker put>>
    mPage,          \* the page the PyPDF2 loop is at
    mParts,         \* len(text_parts) of the PyPDF2 loop
    mLen,           \* len("\n".join(text_parts)) of the PyPDF2 loop
    \* ---- activity logs, snapshot and index store (the data directory)
    log_terminal_history,   \* config log_terminal_history
    history,        \* the lines of the shell history files, in reading order
    today,          \* the day datetime.now() reports
    logs,           \* logs/device_<host>_<day>.json, by day: a file
    metadataFile,   \* file_index_data/file_metadata.json: a file
    store,          \* search_index/: [state, docs]; state is missing, empty (a
                    \*   directory with nothing in it), created (an index
                    \*   with no segment) or committed
    \* ---- the process building the index (full_index, rebuild_index)
    bPc,            \* idle, clear, create, write, commit
    bOp,            \* the call in progress: full or rebuild
    bLost,          \* whether the store was missing when the call began
    bEntries,       \* entries, as given to build_index
    bWriter,        \* the documents added to the writer, not yet committed
    bCount,         \* count
    calls,          \* the calls that ended, in order, each with what it left
    nSync,          \* how many times sync_terminal_history has run
    nCrawl,         \* how many times crawl has run
    okViews,        \* the views of the store a reader may have: that of the
                    \*   complete previous index, that of the complete new one
    \* ---- a process searching (search_index)
    rPc,            \* idle, get_index, searcher, query
    rQuery,         \* q
    rLimit,         \* limit
    rIndex,         \* the documents of the searcher the reader holds
    rSaw,           \* None, or <<the view of the store the reader got, with
                    \*   the views it might have got then>>
    rRet,           \* None, or <<what search_index returned or raised>>
    \* ---- a process saving the snapshot, and one loading it (metadata.py)
    svPc,           \* idle, open, write
    svOut,          \* out, the normalized records save_metadata writes
    svOk,           \* the lists a load may give: that of the complete
                    \*   previous snapshot, the complete new one
    ldRet,          \* None, or <<what load_metadata found, returned or
                    \*   raised, and the lists it might have returned>>
    \* ---- the history sync on its own (activity_logger.py)
    syCall,         \* None, or <<the last sync_terminal_history call: the log
                    \*   files before and after it, the day, what it returned>>
    \* ---- two processes building the index at once (build_index)
    builds          \* for each process: where its build_index is, and
                    \*   whether the files and the lock of its writer are
                    \*   still in the index directory

snipVars == <<hit, out>>

crawlVars == <<folders, exclude_patterns, max_file_size_kb, fileSize, statFails,
               walkFails, crawlTrace>>

extVars == <<rcFile, rcPc, rcResult, wPc, wPage, wParts, wLen, wQueue, mPage, mParts,
             mLen>>

dataVars == <<log_terminal_history, history, today, logs, metadataFile, store>>

buildVars == <<bPc, bOp, bLost, bEntries, bWriter, bCount, calls, nSync, nCrawl, okViews>>

readVars == <<rPc, rQuery, rLimit, rIndex, rSaw, rRet>>

idxVars == <<dataVars, buildVars, readVars>>

metaVars == <<svPc, svOut, svOk, ldRet>>

syncVars == <<syCall>>

concVars == <<builds>>

\* What the steps of one component leave alone
snipFrame == <<crawlVars, extVars, idxVars, metaVars, syncVars, concVars>>

crawlFrame == <<snipVars, extVars, idxVars, metaVars, syncVars, concVars>>

extFrame == <<snipVars, crawlVars, idxVars, metaVars, syncVars, concVars>>

vars == <<hit, out, folders, exclude_patterns, max_file_size_kb, fileSize, statFails,
          walkFails, crawlTrace, rcFile, rcPc, rcResult, wPc, wPage, wParts, wLen,
          wQueue, mPage, mParts, mLen, log_terminal_history, history, today, logs,
          metadataFile, store, bPc, bOp, bLost, bEntries, bWriter, bCount, calls, nSync,
          nCrawl, okViews, rPc, rQuery, rLimit, rIndex, rSaw, rRet, svPc, svOut, svOk,
          ldRet, syCall, builds>>

(***************************************************************************)
(* Text helpers: Python's str operations on the model's alphabet.          *)
(***************************************************************************)
None == <<>>

Some(x) == <<x>>

NL == "\n"

SP == " "

Alphabet == {"a", SP, NL}

\* str.strip() with no argument removes whitespace; of the alphabet, SP and NL.
IsSpace(c) == c \in {SP, NL}

Min(a, b) == IF a < b THEN a ELSE b

\* s[:n]
Take(s, n) == SubSeq(s, 1, Min(n, Len(s)))

\* s.replace("\n", " ")
ReplaceNewlines(s) == [i \in 1..Len(s) |-> IF s[i] = NL THEN SP ELSE s[i]]

RECURSIVE LStrip(_)
LStrip(s) == IF s # <<>> /\ IsSpace(Head(s)) THEN LStrip(Tail(s)) ELSE s

RECURSIVE RStrip(_)
RStrip(s) ==
    IF s # <<>> /\ IsSpace(s[Len(s)]) THEN RStrip(SubSeq(s, 1, Len(s) - 1)) ELSE s

\* s.strip()
Strip(s) == RStrip(LStrip(s))

\* The truncation marker "..."
Marker == <<".", ".", ".">>

\* n copies of the character c
Fill(c, n) == [i \in 1..n |-> c]

(***************************************************************************)
(* The parts of the state a specification does not exercise stay as they   *)
(* are here.                                                               *)
(***************************************************************************)
SnippetIdle ==
    /\ hit = [path |-> "doc", result_type |-> "file", content |-> <<"a">>]
    /\ out = None

\* What the reads of a file do; the fields a file type does not use keep
\* these values.
PlainFile ==
    [suffix |-> ".txt", exists |-> TRUE,
     \* .pdf: each backend's import and open, the pages and their extraction
     plumber |-> "ok", pypdf |-> "ok", pages |-> 0, oddAt |-> 1,
     plumberOdd |-> "text", pypdfOdd |-> "text", pageLen |-> 1,
     \* .docx: the parser, and the length of the text of the document
     docx |-> "ok", docLen |-> 0,
     \* plain text: stat, read, the bytes, and what chardet reports
     statOk |-> TRUE, readOk |-> TRUE, size |-> 0, raw |-> "ascii",
     chardet |-> "ok", detected |-> "none", confident |-> FALSE]

ExtractIdle ==
    /\ rcFile = PlainFile
    /\ rcPc = "idle"
    /\ rcResult = None
    /\ wPc = "none"
    /\ wPage = 0
    /\ wParts = 0
    /\ wLen = 0
    /\ wQueue = None
    /\ mPage = 0
    /\ mParts = 0
    /\ mLen = 0

\* A file of the data directory: missing, a JSON array (list) of items, or
\* bytes that are not JSON (corrupt).
MissingFile == [kind |-> "missing", items |-> <<>>]

ListFile(items) == [kind |-> "list", items |-> items]

CorruptFile == [kind |-> "corrupt", items |-> <<>>]

MaxDay == 2

Days == 1..MaxDay

EmptyStore == [state |-> "empty", docs |-> <<>>]

\* No process is in build_index
NoBuilds == <<>>

MetaIdle ==
    /\ svPc = "idle"
    /\ svOut = <<>>
    /\ svOk = {}
    /\ ldRet = None
    /\ syCall = None
    /\ builds = NoBuilds

IndexIdle ==
    /\ MetaIdle
    /\ log_terminal_history = TRUE
    /\ history = <<>>
    /\ today = 1
    /\ logs = [d \in Days |-> MissingFile]
    /\ metadataFile = MissingFile
    /\ store = EmptyStore
    /\ bPc = "idle"
    /\ bOp = "none"
    /\ bLost = FALSE
    /\ bEntries = <<>>
    /\ bWriter = <<>>
    /\ bCount = 0
    /\ calls = <<>>
    /\ nSync = 0
    /\ nCrawl = 0
    /\ okViews = {}
    /\ rPc = "idle"
    /\ rQuery = <<>>
    /\ rLimit = 1
    /\ rIndex = <<>>
    /\ rSaw = None
    /\ rRet = None

(***************************************************************************)
(* The filesystem the crawler walks.  A path is the sequence of its parts; *)
(* the tree is listed in the order rglob("*") walks it.  A configured      *)
(* folder is a name; FolderTarget gives the directory it resolves to (lnk  *)
(* is a symbolic link to docs), or None when it is no directory.           *)
(***************************************************************************)
TreeEntries ==
    << [parts |-> <<"docs", "a.txt">>,                 isFile |-> TRUE,  mtime |-> 11],
       [parts |-> <<"docs", "b.PDF">>,                 isFile |-> TRUE,  mtime |-> 12],
       [parts |-> <<"docs", "Node_Modules">>,          isFile |-> FALSE, mtime |-> 13],
       [parts |-> <<"docs", "Node_Modules", "c.md">>,  isFile |-> TRUE,  mtime |-> 14],
       [parts |-> <<"docs", "sub">>,                   isFile |-> FALSE, mtime |-> 15],
       [parts |-> <<"docs", "sub", "d.docx">>,         isFile |-> TRUE,  mtime |-> 16],
       [parts |-> <<"docs", "sub", "e.bin">>,          isFile |-> TRUE,  mtime |-> 17],
       [parts |-> <<"docs", "z.txt">>,                 isFile |-> TRUE,  mtime |-> 18],
       [parts |-> <<"venv">>,                          isFile |-> FALSE, mtime |-> 19],
       [parts |-> <<"venv", "proj">>,                  isFile |-> FALSE, mtime |-> 20],
       [parts |-> <<"venv", "proj", "f.py">>,          isFile |-> TRUE,  mtime |-> 21] >>

TreePaths == {TreeEntries[i].parts : i \in 1..Len(TreeEntries)}

FilePaths == {TreeEntries[i].parts : i \in {j \in 1..Len(TreeEntries) : TreeEntries[j].isFile}}

FolderNames == {"docs", "docs/sub", "lnk", "venv/proj", "nowhere", "docs/a.txt"}

\* Path(folder).is_dir() and the directory the folder resolves to
FolderTarget(f) ==
    CASE f = "docs"      -> Some(<<"docs">>)
      [] f = "docs/sub"  -> Some(<<"docs", "sub">>)
      [] f = "lnk"       -> Some(<<"docs">>)
      [] f = "venv/proj" -> Some(<<"venv", "proj">>)
      [] OTHER           -> None

\* str.lower() on the names of the tree and the patterns
Lower(s) ==
    CASE s = "Node_Modules" -> "node_modules"
      [] s = "b.PDF"        -> "b.pdf"
      [] s = ".PDF"         -> ".pdf"
      [] s = "VENV"         -> "venv"
      [] OTHER              -> s

\* str.strip() on the patterns
StripName(p) == CASE p = " sub" -> "sub" [] OTHER -> p

\* Path.suffix of a file name
Suffix(name) ==
    CASE name = "a.txt"  -> ".txt"
      [] name = "z.txt"  -> ".txt"
      [] name = "b.PDF"  -> ".PDF"
      [] name = "c.md"   -> ".md"
      [] name = "d.docx" -> ".docx"
      [] name = "e.bin"  -> ".bin"
      [] name = "f.py"   -> ".py"
      [] OTHER           -> ""

IsPrefix(p, s) == Len(p) <= Len(s) /\ SubSeq(s, 1, Len(p)) = p

(***************************************************************************)
(* crawler.py                                                              *)
(***************************************************************************)
INDEXABLE_EXTENSIONS ==
    {".txt", ".md", ".rst", ".tex", ".latex", ".org", ".adoc", ".asciidoc", ".docx",
     ".pdf", ".json", ".yml", ".yaml", ".toml", ".ini", ".cfg", ".conf", ".xml", ".csv",
     ".html", ".htm", ".xhtml", ".css", ".scss", ".sass", ".less",
     ".js", ".jsx", ".mjs", ".cjs", ".ts", ".tsx", ".mts", ".cts", ".vue",
     ".py", ".pyw", ".pyi",
     ".c", ".h", ".cpp", ".hpp", ".cc", ".cxx", ".java", ".kt", ".kts", ".rs",
     ".go", ".r", ".R", ".rb", ".php", ".swift", ".sql", ".sh", ".bash", ".zsh",
     ".ps1", ".bat", ".cmd", ".rq", ".sparql",
     ".log", ".diff", ".patch", ".svg", ".graphql", ".gql"}

LARGE_FILE_EXTENSIONS == {".docx", ".pdf"}

LARGE_FILE_MAX_KB == 10 * 1024

\* exclude_set = {p.strip().lower() for p in exclude_patterns if p}
ExcludeSet(patterns) ==
    {Lower(StripName(patterns[i])) : i \in {j \in 1..Len(patterns) : patterns[j] # ""}}

\* A mutant of Excluded: the name is compared as written, not lower-cased.
ExcludedCaseSensitive(rel, exclude_set) ==
    \E k \in 1..Len(rel) : rel[k] \in exclude_set

\* for part in path.relative_to(root).parts: if part.lower() in exclude_set
Excluded(rel, exclude_set) ==
    \E k \in 1..Len(rel) : Lower(rel[k]) \in exclude_set

\* A mutant of SizeLimit: the max_file_size_kb limit for every extension.
SizeLimitSameForAll(name, max_bytes) == max_bytes

\* limit = LARGE_FILE_MAX_KB * 1024 if suffix in LARGE_FILE_EXTENSIONS else max_bytes
SizeLimit(name, max_bytes) ==
    IF Lower(Suffix(name)) \in LARGE_FILE_EXTENSIONS
    THEN LARGE_FILE_MAX_KB * 1024
    ELSE max_bytes

\* root.rglob("*"): the entries below the root's directory, in walk order
RGlob(target) ==
    SelectSeq(TreeEntries, LAMBDA e : IsPrefix(target, e.parts) /\ e.parts # target)

\* The body of the loop for one walked entry: the entries it yields (none or one).
\* rel is the path relative to the root; the yielded path is the resolved one.
CrawlEntry(root, target, e, exclude_set, max_bytes) ==
    LET rel  == SubSeq(e.parts, Len(target) + 1, Len(e.parts))
        name == e.parts[Len(e.parts)]
    IN  IF ~e.isFile THEN <<>>
        ELSE IF Lower(Suffix(name)) \notin INDEXABLE_EXTENSIONS THEN <<>>
        ELSE IF Excluded(rel, exclude_set) THEN <<>>
        ELSE IF e.parts \in statFails THEN <<>>
        ELSE IF fileSize[e.parts] > SizeLimit(name, max_bytes) THEN <<>>
        ELSE << [root  |-> root,
                 entry |-> [path  |-> target \o rel,
                            mtime |-> e.mtime,
                            size  |-> fileSize[e.parts]]] >>

\* The walk of one root from its i-th entry on; an OSError raised by the walk
\* ends the root (what was yielded before stays yielded).
RECURSIVE CrawlWalk(_, _, _, _, _, _)
CrawlWalk(root, target, es, i, exclude_set, max_bytes) ==
    IF i > Len(es) THEN <<>>
    ELSE IF es[i].parts \in walkFails THEN <<>>
    ELSE CrawlEntry(root, target, es[i], exclude_set, max_bytes)
             \o CrawlWalk(root, target, es, i + 1, exclude_set, max_bytes)

\* for folder in folders: ... from the i-th folder on
RECURSIVE CrawlFolders(_, _, _, _)
CrawlFolders(fs, i, exclude_set, max_bytes) ==
    IF i > Len(fs) THEN <<>>
    ELSE (IF FolderTarget(fs[i]) = None \/ FolderTarget(fs[i])[1] \in walkFails
          THEN <<>>
          ELSE CrawlWalk(fs[i], FolderTarget(fs[i])[1], RGlob(FolderTarget(fs[i])[1]),
                         1, exclude_set, max_bytes))
             \o CrawlFolders(fs, i + 1, exclude_set, max_bytes)

\* crawl(folders, exclude_patterns, max_file_size_kb), each yield with its root
CrawlYields(fs, patterns, kb) == CrawlFolders(fs, 1, ExcludeSet(patterns), kb * 1024)

\* list(crawl(...)): the yielded dicts
EntriesOf(trace) == [i \in 1..Len(trace) |-> trace[i].entry]

(***************************************************************************)
(* The crawls the crawler claims are checked on.                           *)
(***************************************************************************)
MaxFolders == 2

MaxPatterns == 1

SeqsUpTo(S, n) == UNION {[1..k -> S] : k \in 0..n}

Patterns == {"node_modules", "VENV", " sub"}

KbChoices == {1, 512, LARGE_FILE_MAX_KB + 1}

SizeChoices(kb) ==
    {0, kb * 1024, kb * 1024 + 1, LARGE_FILE_MAX_KB * 1024, LARGE_FILE_MAX_KB * 1024 + 1}

CrawlIdle ==
    /\ folders = <<>>
    /\ exclude_patterns = <<>>
    /\ max_file_size_kb = 512
    /\ fileSize = [f \in FilePaths |-> 0]
    /\ statFails = {}
    /\ walkFails = {}
    /\ crawlTrace = None

CrawlInit ==
    /\ SnippetIdle
    /\ ExtractIdle
    /\ IndexIdle
    /\ folders \in SeqsUpTo(FolderNames, MaxFolders)
    /\ exclude_patterns \in SeqsUpTo(Patterns, MaxPatterns)
    /\ max_file_size_kb \in KbChoices
    /\ \E s \in SizeChoices(max_file_size_kb) : fileSize = [f \in FilePaths |-> s]
    /\ statFails \in {{}, {<<"docs", "a.txt">>}}
    /\ walkFails \in {{}, {<<"docs", "sub">>}}
    /\ crawlTrace = None

\* entries = list(crawl(folders, exclude_patterns, max_file_size_kb))
Crawl ==
    /\ crawlTrace = None
    /\ crawlTrace' = Some(CrawlYields(folders, exclude_patterns, max_file_size_kb))
    /\ UNCHANGED <<folders, exclude_patterns, max_file_size_kb, fileSize, statFails,
                   walkFails, crawlFrame>>

CrawlNext == Crawl

SpecCrawl == CrawlInit /\ [][CrawlNext]_vars

(***************************************************************************)
(* _read_content (indexer.py 24-165).  A text is modelled by its length;   *)
(* the result is a string of a length, or an exception that leaves the     *)
(* function.                                                               *)
(***************************************************************************)
MAX_CHARS == 500000

PDF_MAX_PAGES == 50

Str(n) == [kind |-> "str", len |-> n]

Raised(e) == [kind |-> "raise", exc |-> e]

\* text[:max_chars] if len(text) > max_chars else text
Truncated(n) == IF n > MAX_CHARS THEN MAX_CHARS ELSE n

\* What extracting the i-th page does with a backend whose odd page does odd:
\* text (non-blank), blank (None or whitespace), error (raises), hang (never
\* completes).
PageOutcome(i, odd) == IF i = rcFile.oddAt THEN odd ELSE "text"

\* max_pages = min(50, len(pdf.pages))
MaxPagesRead == Min(PDF_MAX_PAGES, rcFile.pages)

\* len("\n".join(text_parts)) once a text of length n is appended
Joined(parts, len, n) == IF parts = 0 THEN n ELSE len + 1 + n

\* bytes.decode(encoding) on the bytes of the file: ok, UnicodeDecodeError, or
\* LookupError for an encoding name Python has no codec for (chardet reports
\* EUC-TW, for which there is none).
Decode(encoding, raw) ==
    CASE encoding = "ascii"        -> IF raw = "ascii" THEN "ok" ELSE "UnicodeDecodeError"
      [] encoding = "utf-8"        -> IF raw \in {"ascii", "utf8"}
                                      THEN "ok" ELSE "UnicodeDecodeError"
      [] encoding = "utf-8-sig"    -> IF raw \in {"ascii", "utf8"}
                                      THEN "ok" ELSE "UnicodeDecodeError"
      [] encoding = "windows-1254" -> IF raw = "binary" THEN "UnicodeDecodeError" ELSE "ok"
      [] encoding = "iso-8859-9"   -> "ok"
      [] encoding = "iso-8859-1"   -> "ok"
      [] encoding = "cp1252"       -> IF raw = "binary" THEN "UnicodeDecodeError" ELSE "ok"
      [] OTHER                     -> "LookupError"

\* The length of the decoded text: one character per byte, but two bytes per
\* character for the utf8 bytes read as UTF-8.
DecodedLen(encoding, raw, size) ==
    IF raw = "utf8" /\ encoding \in {"utf-8", "utf-8-sig"} THEN size \div 2 ELSE size

FallbackEncodings ==
    <<"utf-8", "utf-8-sig", "windows-1254", "iso-8859-9", "iso-8859-1", "cp1252">>

\* for encoding in encodings: try: return raw.decode(encoding) ...; then
\* raw.decode("utf-8", errors="replace")
RECURSIVE DecodeFallback(_, _, _)
DecodeFallback(i, raw, size) ==
    IF i > Len(FallbackEncodings) THEN Str(size)
    ELSE IF Decode(FallbackEncodings[i], raw) = "ok"
         THEN Str(DecodedLen(FallbackEncodings[i], raw, size))
         ELSE DecodeFallback(i + 1, raw, size)

\* Lines 140-163: chardet first (an ImportError skips it), then the fallbacks.
\* Of the detected encoding's decode only UnicodeDecodeError is caught.
DecodeDetected(f) ==
    IF f.chardet = "ok" /\ f.confident /\ f.detected # "none"
    THEN CASE Decode(f.detected, f.raw) = "ok" ->
                  Str(DecodedLen(f.detected, f.raw, f.size))
           [] Decode(f.detected, f.raw) = "UnicodeDecodeError" ->
                  DecodeFallback(1, f.raw, f.size)
           [] OTHER -> Raised(Decode(f.detected, f.raw))
    ELSE DecodeFallback(1, f.raw, f.size)

\* Lines 133-165: the plain-text branch
ReadPlain(f) ==
    IF ~f.statOk THEN Str(0)
    ELSE IF f.size > MAX_CHARS * 2 THEN Str(0)
    ELSE IF ~f.readOk THEN Str(0)
    ELSE DecodeDetected(f)

\* Lines 119-130: the .docx branch
ReadDocx(f) == IF f.docx = "ok" THEN Str(Truncated(f.docLen)) ELSE Str(0)

(***************************************************************************)
(* _read_content step by step.  The .pdf branch runs pdfplumber in a worker *)
(* thread that the caller joins with a timeout of 30 seconds, and falls    *)
(* back to PyPDF2 in the calling thread.                                   *)
(***************************************************************************)
Return(r) ==
    /\ rcResult' = Some(r)
    /\ rcPc' = "returned"

\* Lines 26-32, 119, 133: the existence test and the dispatch on the suffix;
\* the .docx and plain-text branches run to their return.
RcStart ==
    /\ rcPc = "start"
    /\ IF ~rcFile.exists THEN Return(Str(0))
       ELSE IF Lower(rcFile.suffix) = ".pdf"
            THEN rcPc' = "pdf_plumber" /\ UNCHANGED rcResult
       ELSE IF Lower(rcFile.suffix) = ".docx" THEN Return(ReadDocx(rcFile))
       ELSE Return(ReadPlain(rcFile))
    /\ UNCHANGED <<extFrame, rcFile, wPc, wPage, wParts, wLen, wQueue, mPage, mParts, mLen>>

\* Lines 34-71: import pdfplumber (an ImportError passes on to PyPDF2), start
\* the worker thread.
PdfStartWorker ==
    /\ rcPc = "pdf_plumber"
    /\ IF rcFile.plumber = "notinstalled"
       THEN rcPc' = "pdf_pypdf" /\ UNCHANGED wPc
       ELSE rcPc' = "join" /\ wPc' = "open"
    /\ UNCHANGED <<extFrame, rcFile, rcResult, wPage, wParts, wLen, wQueue, mPage, mParts, mLen>>

\* Lines 43, 56-57, 66-67: the worker opens the file; an error is put on the queue.
WorkerOpen ==
    /\ wPc = "open"
    /\ IF rcFile.plumber = "openerror"
       THEN wQueue' = Some([status |-> "error", len |-> 0]) /\ wPc' = "done"
                /\ UNCHANGED wPage
       ELSE wPc' = "pages" /\ wPage' = 1 /\ UNCHANGED wQueue
    /\ UNCHANGED <<extFrame, rcFile, rcPc, rcResult, wParts, wLen, mPage, mParts, mLen>>

\* Lines 46-55: the worker extracts one page.
WorkerPage ==
    /\ wPc = "pages"
    /\ IF wPage > MaxPagesRead
       THEN wPc' = "finish" /\ UNCHANGED <<wPage, wParts, wLen>>
       ELSE LET o == PageOutcome(wPage, rcFile.plumberOdd)
            IN  CASE o = "hang" -> wPc' = "hung" /\ UNCHANGED <<wPage, wParts, wLen>>
                  [] o = "text" ->
                        /\ wParts' = wParts + 1
                        /\ wLen' = Joined(wParts, wLen, rcFile.pageLen)
                        /\ IF wLen' > MAX_CHARS
                           THEN wPc' = "finish" /\ UNCHANGED wPage
                           ELSE wPage' = wPage + 1 /\ UNCHANGED wPc
                  [] OTHER -> wPage' = wPage + 1 /\ UNCHANGED <<wPc, wParts, wLen>>
    /\ UNCHANGED <<extFrame, rcFile, rcPc, rcResult, wQueue, mPage, mParts, mLen>>

\* Lines 58, 64-65: the worker puts its text on the queue and ends.
WorkerFinish ==
    /\ wPc = "finish"
    /\ wQueue' = Some([status |-> "success", len |-> wLen])
    /\ wPc' = "done"
    /\ UNCHANGED <<extFrame, rcFile, rcPc, rcResult, wPage, wParts, wLen, mPage, mParts, mLen>>

\* Lines 72-74: thread.join(timeout=30) returns because the worker has ended.
JoinDone ==
    /\ rcPc = "join"
    /\ wPc = "done"
    /\ rcPc' = "pdf_check"
    /\ UNCHANGED <<extFrame, rcFile, rcResult, wPc, wPage, wParts, wLen, wQueue, mPage, mParts,
                   mLen>>

\* Lines 72-77: the 30 seconds pass with the worker still alive; it is abandoned.
JoinTimeout ==
    /\ rcPc = "join"
    /\ wPc # "done"
    /\ Return(Str(0))
    /\ UNCHANGED <<extFrame, rcFile, wPc, wPage, wParts, wLen, wQueue, mPage, mParts, mLen>>

\* Lines 79-87: a non-empty success is returned; anything else goes on to PyPDF2.
PdfCheck ==
    /\ rcPc = "pdf_check"
    /\ IF wQueue # None /\ wQueue[1].status = "success" /\ wQueue[1].len > 0
       THEN Return(Str(Truncated(wQueue[1].len)))
       ELSE rcPc' = "pdf_pypdf" /\ UNCHANGED rcResult
    /\ UNCHANGED <<extFrame, rcFile, wPc, wPage, wParts, wLen, wQueue, mPage, mParts, mLen>>

\* Lines 90-96, 115-116: import PyPDF2 and open the file, in the calling thread.
PypdfOpen ==
    /\ rcPc = "pdf_pypdf"
    /\ IF rcFile.pypdf # "ok"
       THEN Return(Str(0)) /\ UNCHANGED mPage
       ELSE rcPc' = "pypdf_pages" /\ mPage' = 1 /\ UNCHANGED rcResult
    /\ UNCHANGED <<extFrame, rcFile, wPc, wPage, wParts, wLen, wQueue, mParts, mLen>>

\* Lines 97-114: PyPDF2 extracts one page, in the calling thread; a page
\* extraction that never completes leaves the caller inside it.
PypdfPage ==
    /\ rcPc = "pypdf_pages"
    /\ IF mPage > MaxPagesRead
       THEN Return(Str(Truncated(mLen))) /\ UNCHANGED <<mPage, mParts, mLen>>
       ELSE LET o == PageOutcome(mPage, rcFile.pypdfOdd)
            IN  CASE o = "hang" ->
                        rcPc' = "pypdf_hung" /\ UNCHANGED <<rcResult, mPage, mParts, mLen>>
                  [] o = "text" ->
                        /\ mParts' = mParts + 1
                        /\ mLen' = Joined(mParts, mLen, rcFile.pageLen)
                        /\ IF mLen' > MAX_CHARS
                           THEN Return(Str(Truncated(mLen'))) /\ UNCHANGED mPage
                           ELSE mPage' = mPage + 1 /\ UNCHANGED <<rcPc, rcResult>>
                  [] OTHER ->
                        mPage' = mPage + 1 /\ UNCHANGED <<rcPc, rcResult, mParts, mLen>>
    /\ UNCHANGED <<extFrame, rcFile, wPc, wPage, wParts, wLen, wQueue>>

(***************************************************************************)
(* The files the extractor claims are checked on.                          *)
(***************************************************************************)
PageOutcomes == {"text", "blank", "error", "hang"}

PdfFiles ==
    {[PlainFile EXCEPT !.suffix = sfx, !.plumber = pl, !.pypdf = py, !.pages = n,
                       !.oddAt = at, !.plumberOdd = po, !.pypdfOdd = yo, !.pageLen = len] :
        sfx \in {".pdf", ".PDF"},
        pl \in {"notinstalled", "openerror", "ok"},
        py \in {"notinstalled", "openerror", "ok"},
        n \in {0, 2, PDF_MAX_PAGES + 1}, at \in {1, 2},
        po \in PageOutcomes, yo \in PageOutcomes,
        len \in {1, MAX_CHARS \div 2, MAX_CHARS + 1}}

DocxFiles ==
    {[PlainFile EXCEPT !.suffix = ".docx", !.docx = d, !.docLen = len] :
        d \in {"notinstalled", "error", "ok"}, len \in {0, MAX_CHARS, MAX_CHARS + 1}}

TextFileChoices ==
    {[PlainFile EXCEPT !.statOk = st, !.readOk = rd, !.size = sz, !.raw = raw,
                       !.chardet = cd, !.detected = enc, !.confident = conf] :
        st \in BOOLEAN, rd \in BOOLEAN,
        sz \in {0, 10, 2 * MAX_CHARS, 2 * MAX_CHARS + 1},
        raw \in {"ascii", "utf8", "latin", "binary"},
        cd \in {"notinstalled", "ok"},
        enc \in {"none", "ascii", "utf-8", "windows-1254", "EUC-TW"},
        conf \in BOOLEAN}

\* chardet reports nothing for no bytes, ascii only for ASCII bytes, and a
\* multi-byte encoding only for bytes that are not UTF-8.
TextFiles ==
    {f \in TextFileChoices :
        /\ f.size = 0 => (f.detected = "none" /\ ~f.confident)
        /\ f.detected = "ascii" => f.raw = "ascii"
        /\ f.detected = "EUC-TW" => f.raw = "latin"}

ExtractInit ==
    /\ SnippetIdle
    /\ CrawlIdle
    /\ IndexIdle
    /\ rcFile \in PdfFiles \cup DocxFiles \cup TextFiles
                     \cup {[PlainFile EXCEPT !.exists = FALSE]}
    /\ rcPc = "start"
    /\ rcResult = None
    /\ wPc = "none"
    /\ wPage = 0
    /\ wParts = 0
    /\ wLen = 0
    /\ wQueue = None
    /\ mPage = 0
    /\ mParts = 0
    /\ mLen = 0

\* The steps of the calling thread
CallerNext ==
    \/ RcStart
    \/ PdfStartWorker
    \/ JoinDone
    \/ JoinTimeout
    \/ PdfCheck
    \/ PypdfOpen
    \/ PypdfPage

\* The steps of the worker thread
WorkerNext ==
    \/ WorkerOpen
    \/ WorkerPage
    \/ WorkerFinish

ExtractNext == CallerNext \/ WorkerNext

SpecExtract == ExtractInit /\ [][ExtractNext]_vars

\* Both threads are scheduled: a step that stays possible is taken.  A page
\* extraction that never completes is a thread with no step.
SpecExtractFair == SpecExtract /\ WF_vars(ExtractNext)

(***************************************************************************)
(* search_index, the body of the loop over the hits (indexer.py 270-278).  *)
(***************************************************************************)
SNIPPET_LEN == 200

\* A mutant of MakeSnippet: the marker is appended from 200 characters on.
MakeSnippetMarkerAt200(content) ==
    LET snippet == Strip(ReplaceNewlines(Take(content, SNIPPET_LEN)))
    IN  IF Len(content) >= SNIPPET_LEN THEN snippet \o Marker ELSE snippet

\* snippet = content[:200].replace("\n", " ").strip(); "..." if len(content) > 200
MakeSnippet(content) ==
    LET snippet == Strip(ReplaceNewlines(Take(content, SNIPPET_LEN)))
    IN  IF Len(content) > SNIPPET_LEN THEN snippet \o Marker ELSE snippet

\* (path, snippet, result_type, copy_text) of one hit
HitResult(h) ==
    [path        |-> h.path,
     snippet     |-> MakeSnippet(h.content),
     result_type |-> h.result_type,
     copy_text   |-> IF h.result_type = "command" THEN Some(h.content) ELSE None]

(***************************************************************************)
(* activity_logger.py                                                      *)
(***************************************************************************)
LONG_COMMAND == 2000

\* str.find(c): the first position of c in s, 0 when there is none
Find(s, c) ==
    IF \E i \in 1..Len(s) : s[i] = c
    THEN CHOOSE i \in 1..Len(s) : s[i] = c /\ \A j \in 1..(i - 1) : s[j] # c
    ELSE 0

\* s[n:]
Drop(s, n) == SubSeq(s, n + 1, Len(s))

\* str(i) for the small numbers of the model
Digit(d) ==
    CASE d = 0 -> "0" [] d = 1 -> "1" [] d = 2 -> "2" [] d = 3 -> "3" [] d = 4 -> "4"
      [] d = 5 -> "5" [] d = 6 -> "6" [] d = 7 -> "7" [] d = 8 -> "8" [] OTHER -> "9"

IntStr(i) == IF i < 10 THEN <<Digit(i)>> ELSE <<Digit(i \div 10), Digit(i % 10)>>

\* datetime.now().strftime(...) on a day: the timestamp of the entries of a sync
NowIso(day) == <<"D">> \o IntStr(day)

\* Lines 75-84: the command of a history line, None for a line that is skipped.
HistoryCommand(line) ==
    LET cmd == Strip(line)
    IN  IF cmd = <<>> \/ Len(cmd) > LONG_COMMAND THEN None
        ELSE IF /\ IsPrefix(<<":", " ">>, cmd)
                /\ Find(Drop(cmd, 2), ":") # 0
                /\ Find(cmd, ";") # 0
             THEN Some(Strip(Drop(cmd, Find(cmd, ";"))))
             ELSE Some(cmd)

\* _existing_commands(log_path)
ExistingCommands(file) ==
    IF file.kind = "list"
    THEN {Strip(file.items[i].command) : i \in 1..Len(file.items)}
    ELSE {}

\* Lines 73-93: the new entries of the history lines from the i-th on
RECURSIVE NewEntries(_, _, _, _)
NewEntries(lines, i, existing, now) ==
    IF i > Len(lines) THEN <<>>
    ELSE LET c == HistoryCommand(lines[i])
         IN  IF c = None \/ c[1] \in existing
             THEN NewEntries(lines, i + 1, existing, now)
             ELSE << [type |-> "command", timestamp |-> now, command |-> c[1],
                      cwd |-> "cwd"] >>
                      \o NewEntries(lines, i + 1, existing \cup {c[1]}, now)

\* _log_path(logs_dir): the file of the day
LogPathDay(day) == day

\* sync_terminal_history(logs_dir): the log files it leaves and what it returns
SyncTerminalHistory(files, day, lines) ==
    LET file == files[LogPathDay(day)]
        new  == NewEntries(lines, 1, ExistingCommands(file), NowIso(day))
        data == IF file.kind = "list" THEN file.items \o new ELSE new
    IN  IF new = <<>>
        THEN [logs |-> files, ret |-> 0]
        ELSE [logs |-> [files EXCEPT ![LogPathDay(day)] = ListFile(data)],
              ret  |-> Len(new)]

\* load_commands_from_logs(logs_dir): the items of the files from day d on
RECURSIVE LoadCommandsFrom(_, _)
LoadCommandsFrom(files, d) ==
    IF d > MaxDay THEN <<>>
    ELSE (IF files[d].kind = "list"
          THEN SelectSeq(files[d].items, LAMBDA item : item.type = "command")
          ELSE <<>>)
             \o LoadCommandsFrom(files, d + 1)

LoadCommands(files) == LoadCommandsFrom(files, 1)

(***************************************************************************)
(* metadata.py                                                             *)
(***************************************************************************)
\* save_metadata(entries): the file it writes
SaveMetadata(entries) ==
    ListFile([i \in 1..Len(entries) |->
                 [path  |-> entries[i].path,
                  mtime |-> entries[i].mtime,
                  size  |-> entries[i].size]])

\* A mutant of load_metadata: the snapshot is not read back.
LoadMetadataNothing(file) == <<>>

\* load_metadata()
LoadMetadata(file) == IF file.kind = "list" THEN file.items ELSE <<>>

(***************************************************************************)
(* build_index (indexer.py 168-208): the documents                         *)
(***************************************************************************)
\* _read_content(path) on the files of the tree: the text extracted
ReadText(path) ==
    CASE path = <<"docs", "a.txt">>         -> <<"l", "s">>
      [] path = <<"docs", "b.PDF">>         -> <<"a", NL, "b">>
      [] path = <<"docs", "sub", "d.docx">> -> <<>>
      [] path = <<"docs", "z.txt">>         -> <<"l", "s", SP, "a">>
      [] OTHER                              -> <<"a">>

\* An entry of the snapshot that is not a record (a JSON number, a string):
\* load_metadata returns whatever the array holds.
NotARecord == [path |-> <<"#not-a-record">>, mtime |-> 0, size |-> 0]

\* A command field that holds a value that is no text (a number, an array)
NotText == <<"#not-text">>

\* The files on which _read_content raises (the LookupError of an encoding
\* that Python does not know, lines 146-149)
ExtractRaises(path) == path = <<"docs", "enc.txt">>

\* The documents writer.add_document refuses (lines 189, 203)
WriteFails(id) == id \in {<<"docs", "w.txt">>, <<"command:", "W", ":", "1">>}

\* A mutant of FileDocs: a file whose extraction gives no text gets no
\* document.
RECURSIVE FileDocsDropEmpty(_, _)
FileDocsDropEmpty(entries, i) ==
    IF i > Len(entries) THEN <<>>
    ELSE (IF entries[i].path = <<>> \/ WriteFails(entries[i].path)
             \/ ReadText(entries[i].path) = <<>>
          THEN <<>>
          ELSE << [path        |-> entries[i].path,
                   result_type |-> "file",
                   content     |-> ReadText(entries[i].path)] >>)
             \o FileDocsDropEmpty(entries, i + 1)

\* Lines 183-192: the documents of the file entries
RECURSIVE FileDocs(_, _)
FileDocs(entries, i) ==
    IF i > Len(entries) THEN <<>>
    ELSE (IF entries[i].path = <<>> \/ WriteFails(entries[i].path)
          THEN <<>>
          ELSE << [path        |-> entries[i].path,
                   result_type |-> "file",
                   content     |-> IF ReadText(entries[i].path) = <<>>
                                   THEN <<SP>>
                                   ELSE ReadText(entries[i].path)] >>)
             \o FileDocs(entries, i + 1)

\* doc_id = f"command:{ts}:{i}"
CommandId(ts, i) == <<"command:">> \o ts \o <<":">> \o IntStr(i)

\* A mutant of CommandDocs: the command text is stored as the record holds it.
RECURSIVE CommandDocsRaw(_, _)
CommandDocsRaw(cmds, i) ==
    IF i >= Len(cmds) THEN <<>>
    ELSE LET c   == cmds[i + 1]
             cmd == Strip(c.command)
             ts  == IF c.timestamp = <<>> THEN IntStr(i) ELSE c.timestamp
         IN  (IF cmd = <<>> \/ WriteFails(CommandId(ts, i))
              THEN <<>>
              ELSE << [path |-> CommandId(ts, i), result_type |-> "command",
                       content |-> c.command] >>)
                 \o CommandDocsRaw(cmds, i + 1)

\* Lines 196-206: the documents of the command entries; i counts from 0
RECURSIVE CommandDocs(_, _)
CommandDocs(cmds, i) ==
    IF i >= Len(cmds) THEN <<>>
    ELSE LET c   == cmds[i + 1]
             cmd == Strip(c.command)
             ts  == IF c.timestamp = <<>> THEN IntStr(i) ELSE c.timestamp
         IN  (IF cmd = <<>> \/ WriteFails(CommandId(ts, i))
              THEN <<>>
              ELSE << [path |-> CommandId(ts, i), result_type |-> "command",
                       content |-> cmd] >>)
                 \o CommandDocs(cmds, i + 1)

\* build_index raises: an entry that is no record (e.get, line 184), a file
\* on which _read_content raises (line 187, outside the try), a command
\* that is no text (strip, line 197)
BuildRaises(entries, cmds) ==
    \/ \E i \in 1..Len(entries) :
           \/ entries[i] = NotARecord
           \/ entries[i].path # <<>> /\ ExtractRaises(entries[i].path)
    \/ \E j \in 1..Len(cmds) : cmds[j].command = NotText

(***************************************************************************)
(* get_index and search_index (indexer.py 238-279)                         *)
(***************************************************************************)
\* The words of a text: its maximal runs without whitespace
RECURSIVE Words(_)
Words(s) ==
    LET t == LStrip(s)
        n == IF \E i \in 1..Len(t) : IsSpace(t[i])
             THEN (CHOOSE i \in 1..Len(t) : IsSpace(t[i]) /\ \A j \in 1..(i - 1) : ~IsSpace(t[j])) - 1
             ELSE Len(t)
    IN  IF t = <<>> THEN {} ELSE {SubSeq(t, 1, n)} \cup Words(Drop(t, n))

\* parser.parse(q) raises on these
MalformedQueries == {<<"(">>}

\* A document matches a query when it holds every word of the query.
Matches(q, doc) == Words(q) \subseteq Words(doc.content)

\* searcher.search(query, limit=limit): the best hits, limit at most
SearchHits(docs, q, limit) == Take(SelectSeq(docs, LAMBDA d : Matches(q, d)), limit)

\* Lines 268-279: the list search_index returns
SearchResults(docs, q, limit) ==
    LET hits == SearchHits(docs, q, limit)
    IN  [i \in 1..Len(hits) |-> HitResult(hits[i])]

\* What a reader that opens the store now gets: None when get_index finds no
\* index (no directory, or nothing in it), else the documents of the index.
View(st) == IF st.state \in {"missing", "empty"} THEN None ELSE Some(st.docs)

(***************************************************************************)
(* The indexing pipeline and a concurrent reader.  One process runs        *)
(* full_index and rebuild_index (the GUI and the CLI call them             *)
(* synchronously); another process runs search_index at any time.  A build *)
(* is split at the points where the index directory changes on disk.       *)
(***************************************************************************)
MaxCalls == 2

Returned(items) == [kind |-> "list", exc |-> "", items |-> items]

SearchRaised(e) == [kind |-> "raise", exc |-> e, items |-> <<>>]

MissingStore == [state |-> "missing", docs |-> <<>>]

\* An entry of the log of finished operations
Call(op, ret, docs) ==
    [op |-> op, ret |-> ret, docs |-> docs, lost |-> bLost,
     meta |-> metadataFile, logs |-> logs, syncs |-> nSync, crawls |-> nCrawl]

idxFrame == <<snipVars, crawlVars, extVars, metaVars, syncVars, concVars>>

\* A mutant of FullIndexSync: the history is synced whatever the configuration.
FullIndexSyncAlways(enabled, files, day, lines) == SyncTerminalHistory(files, day, lines)

\* full_index, lines 225-227: if config.get("log_terminal_history", True):
\* sync_terminal_history()
FullIndexSync(enabled, files, day, lines) ==
    IF enabled THEN SyncTerminalHistory(files, day, lines) ELSE [logs |-> files, ret |-> 0]

\* full_index, lines 225-234: history sync, crawl, snapshot; then build_index
FullIndexBegin ==
    /\ bPc = "idle"
    /\ Len(calls) < MaxCalls
    /\ LET sync    == FullIndexSync(log_terminal_history, logs, today, history)
           entries == EntriesOf(CrawlYields(folders, exclude_patterns, max_file_size_kb))
       IN  /\ logs' = sync.logs
           /\ nSync' = IF log_terminal_history THEN nSync + 1 ELSE nSync
           /\ nCrawl' = nCrawl + 1
           /\ metadataFile' = SaveMetadata(entries)
           /\ bEntries' = entries
           /\ okViews' = {View(store),
                          Some(FileDocs(entries, 1) \o CommandDocs(LoadCommands(sync.logs), 0))}
    /\ bOp' = "full"
    /\ bLost' = (store.state = "missing")
    /\ bPc' = "clear"
    /\ UNCHANGED <<idxFrame, log_terminal_history, history, today, store,
                   bWriter, bCount, calls, readVars>>

\* rebuild_index, line 213: the snapshot; then build_index
RebuildIndexBegin ==
    /\ bPc = "idle"
    /\ Len(calls) < MaxCalls
    /\ bEntries' = LoadMetadata(metadataFile)
    /\ okViews' = {View(store),
                   Some(FileDocs(LoadMetadata(metadataFile), 1)
                            \o CommandDocs(LoadCommands(logs), 0))}
    /\ bOp' = "rebuild"
    /\ bLost' = (store.state = "missing")
    /\ bPc' = "clear"
    /\ UNCHANGED <<idxFrame, dataVars, bWriter, bCount, calls, nSync, nCrawl, readVars>>

\* build_index, lines 174-178: the index directory is removed and made anew
BuildClear ==
    /\ bPc = "clear"
    /\ store' = EmptyStore
    /\ bPc' = "create"
    /\ UNCHANGED <<idxFrame, log_terminal_history, history, today, logs, metadataFile,
                   bOp, bLost, bEntries, bWriter, bCount, calls, nSync, nCrawl, okViews, readVars>>

\* build_index, lines 180-182: create_in writes an index of no documents
BuildCreate ==
    /\ bPc = "create"
    /\ store' = [state |-> "created", docs |-> <<>>]
    /\ bWriter' = <<>>
    /\ bCount' = 0
    /\ bPc' = "write"
    /\ UNCHANGED <<idxFrame, log_terminal_history, history, today, logs, metadataFile,
                   bOp, bLost, bEntries, calls, nSync, nCrawl, okViews, readVars>>

\* build_index, lines 183-206: the documents go to the writer
BuildWrite ==
    /\ bPc = "write"
    /\ ~BuildRaises(bEntries, LoadCommands(logs))
    /\ bWriter' = FileDocs(bEntries, 1) \o CommandDocs(LoadCommands(logs), 0)
    /\ bCount' = Len(bWriter')
    /\ bPc' = "commit"
    /\ UNCHANGED <<idxFrame, dataVars, bOp, bLost, bEntries, calls, nSync, nCrawl, okViews,
                   readVars>>

\* build_index, lines 207-208: commit, and the count is returned
BuildCommit ==
    /\ bPc = "commit"
    /\ store' = [state |-> "committed", docs |-> bWriter]
    /\ calls' = Append(calls, Call(bOp, Some(bCount), bWriter))
    /\ okViews' = {Some(bWriter)}
    /\ bPc' = "idle"
    /\ UNCHANGED <<idxFrame, log_terminal_history, history, today, logs, metadataFile,
                   bOp, bLost, bEntries, bWriter, bCount, nSync, nCrawl, readVars>>

\* build_index stops before the commit: nothing in lines 174-207 is guarded,
\* an error of the file system or the end of the process leaves the
\* directory as it is.
BuildFails ==
    /\ bPc \in {"clear", "create", "write", "commit"}
    /\ calls' = Append(calls, Call(bOp, None, <<>>))
    /\ bPc' = "idle"
    /\ UNCHANGED <<idxFrame, dataVars, bOp, bLost, bEntries, bWriter, bCount, nSync, nCrawl,
                   okViews, readVars>>

\* Midnight: _log_path names another file from now on.
DayTick ==
    /\ bPc = "idle"
    /\ today < MaxDay
    /\ today' = today + 1
    /\ UNCHANGED <<idxFrame, log_terminal_history, history, logs, metadataFile, store,
                   buildVars, readVars>>

\* The index directory is lost (removed by the user) while no build runs.
DeleteStore ==
    /\ bPc = "idle"
    /\ store.state # "missing"
    /\ store' = MissingStore
    /\ okViews' = {None}
    /\ UNCHANGED <<idxFrame, log_terminal_history, history, today, logs, metadataFile,
                   bPc, bOp, bLost, bEntries, bWriter, bCount, calls, nSync, nCrawl,
                   readVars>>

\* search_index, lines 256-258
SearchIndexCall(q, limit) ==
    /\ rPc \in {"idle", "done"}
    /\ rQuery' = Strip(q)
    /\ rLimit' = limit
    /\ rIndex' = None
    /\ rSaw' = None
    /\ IF Strip(q) = <<>>
       THEN rRet' = Some(Returned(<<>>)) /\ rPc' = "done"
       ELSE rRet' = None /\ rPc' = "get_index"
    /\ UNCHANGED <<idxFrame, dataVars, buildVars>>

\* search_index, lines 259-261, with get_index, lines 238-248
SearchGetIndex ==
    /\ rPc = "get_index"
    /\ rIndex' = View(store)
    /\ rSaw' = Some([view |-> View(store), allowed |-> okViews])
    /\ IF View(store) = None
       THEN rRet' = Some(Returned(<<>>)) /\ rPc' = "done"
       ELSE rRet' = None /\ rPc' = "searcher"
    /\ UNCHANGED <<idxFrame, dataVars, buildVars, rQuery, rLimit>>

\* search_index, lines 262-279: ix.searcher() reads the directory again
SearchSearcher ==
    /\ rPc = "searcher"
    /\ rIndex' = View(store)
    /\ rRet' = IF View(store) = None
               THEN Some(SearchRaised("EmptyIndexError"))
               ELSE IF rQuery \in MalformedQueries
                    THEN Some(Returned(<<>>))
                    ELSE Some(Returned(SearchResults(store.docs, rQuery, rLimit)))
    /\ rPc' = "done"
    /\ UNCHANGED <<idxFrame, dataVars, buildVars, rQuery, rLimit, rSaw>>

(***************************************************************************)
(* The configurations, histories and logs the pipeline is checked on       *)
(***************************************************************************)
IndexFolders == {<<"docs", "docs/sub">>, <<"lnk", "nowhere">>}

HistoryLines ==
    << <<"l", "s">>,
       <<":", SP, "1", ":", "0", ";", "c", "d">>,
       <<SP, SP>>,
       <<"l", "s", SP>> >>

Histories == {<<>>, HistoryLines}

LogItem(type, ts, cmd) == [type |-> type, timestamp |-> ts, command |-> cmd, cwd |-> "cwd"]

\* A log of an earlier day: equal timestamps, no timestamp, a blank command,
\* an entry that is not a command
OldLog ==
    ListFile(<< LogItem("command", <<"T">>, <<"a">>),
                LogItem("command", <<"T">>, <<SP, "b">>),
                LogItem("command", <<>>, <<"l", "s">>),
                LogItem("command", <<"T">>, <<SP>>),
                LogItem("note", <<"T">>, <<"a">>) >>)

InitialLogs ==
    {[d \in Days |-> IF d = 1 THEN OldLog ELSE MissingFile],
     [d \in Days |-> IF d = 1 THEN CorruptFile ELSE MissingFile]}

Queries == {<<SP, NL>>, <<"l", "s", SP>>, <<"(">>, <<"a">>}

Limits == {1, 2}

\* The calls of the reader: the limit matters where a query has several hits
SearchInputs == {in \in Queries \X Limits : in[2] = 1 \/ in[1] = <<"a">>}

IndexInit ==
    /\ SnippetIdle
    /\ ExtractIdle
    /\ MetaIdle
    /\ folders \in IndexFolders
    /\ exclude_patterns = <<"node_modules">>
    /\ max_file_size_kb = 512
    /\ fileSize = [f \in FilePaths |-> 100]
    /\ statFails = {}
    /\ walkFails = {}
    /\ crawlTrace = None
    /\ log_terminal_history \in BOOLEAN
    /\ history \in Histories
    /\ today = 1
    /\ logs \in InitialLogs
    /\ metadataFile = MissingFile
    /\ store = MissingStore
    /\ bPc = "idle"
    /\ bOp = "none"
    /\ bLost = FALSE
    /\ bEntries = <<>>
    /\ bWriter = <<>>
    /\ bCount = 0
    /\ calls = <<>>
    /\ nSync = 0
    /\ nCrawl = 0
    /\ okViews = {None}
    /\ rPc = "idle"
    /\ rQuery = <<>>
    /\ rLimit = 1
    /\ rIndex = None
    /\ rSaw = None
    /\ rRet = None

\* The pipeline alone
IndexNext ==
    \/ FullIndexBegin
    \/ RebuildIndexBegin
    \/ BuildClear
    \/ BuildCreate
    \/ BuildWrite
    \/ BuildCommit
    \/ BuildFails
    \/ DayTick
    \/ DeleteStore

SpecIndex == IndexInit /\ [][IndexNext]_vars

\* The pipeline and a reader in another process
SearchNext ==
    \/ IndexNext
    \/ \E in \in SearchInputs : SearchIndexCall(in[1], in[2])
    \/ SearchGetIndex
    \/ SearchSearcher

SpecSearch == IndexInit /\ [][SearchNext]_vars

(***************************************************************************)
(* The snapshot file: save_metadata and load_metadata (metadata.py), a     *)
(* save in one process and loads in another.  A save is split where the    *)
(* file changes on disk: Path.write_text opens the file for writing, which *)
(* empties it, then writes the text and closes it.                         *)
(***************************************************************************)
MaxEntries == 2

\* A file holding a JSON value that is not an array
NotListFile == [kind |-> "notlist", items |-> <<>>]

\* A file whose read raises OSError
UnreadableFile == [kind |-> "unreadable", items |-> <<>>]

\* A file whose bytes are not UTF-8 text
BadBytesFile == [kind |-> "badbytes", items |-> <<>>]

metaFrame == <<snipVars, crawlVars, extVars, syncVars, concVars>>

LoadRaised(e) == [kind |-> "raise", exc |-> e, items |-> <<>>]

\* load_metadata(), lines 17-26: what it returns or raises.  read_text
\* raises UnicodeDecodeError on bytes that are not UTF-8; the handler names
\* json.JSONDecodeError and OSError.
LoadMetadataOutcome(file) ==
    CASE file.kind = "missing"    -> Returned(<<>>)
      [] file.kind = "unreadable" -> Returned(<<>>)
      [] file.kind = "badbytes"   -> LoadRaised("UnicodeDecodeError")
      [] file.kind = "corrupt"    -> Returned(<<>>)
      [] file.kind = "notlist"    -> Returned(<<>>)
      [] OTHER                    -> Returned(file.items)

\* save_metadata, lines 31-40: the directory, the path, the records
SaveMetadataBegin(entries) ==
    /\ svPc = "idle"
    /\ svOut' = SaveMetadata(entries).items
    /\ svOk' = {LoadMetadata(metadataFile), SaveMetadata(entries).items}
    /\ svPc' = "open"
    /\ UNCHANGED <<metaFrame, idxVars, ldRet>>

\* save_metadata, line 41: write_text opens the file, which is now empty
SaveOpen ==
    /\ svPc = "open"
    /\ metadataFile' = CorruptFile
    /\ svPc' = "write"
    /\ UNCHANGED <<metaFrame, log_terminal_history, history, today,
                   logs, store, buildVars, readVars, svOut, svOk, ldRet>>

\* save_metadata, line 41: the text is written and the file closed
SaveWrite ==
    /\ svPc = "write"
    /\ metadataFile' = ListFile(svOut)
    /\ svOk' = {svOut}
    /\ svPc' = "idle"
    /\ UNCHANGED <<metaFrame, log_terminal_history, history, today,
                   logs, store, buildVars, readVars, svOut, ldRet>>

\* The save stops part-way (an error of the file system, the end of the
\* process): the file stays as it is.
SaveFails ==
    /\ svPc \in {"open", "write"}
    /\ svPc' = "idle"
    /\ UNCHANGED <<metaFrame, idxVars, svOut, svOk, ldRet>>

\* load_metadata(), at any time
LoadMetadataCall ==
    /\ ldRet' = Some([file    |-> metadataFile,
                      ret     |-> LoadMetadataOutcome(metadataFile),
                      allowed |-> svOk])
    /\ UNCHANGED <<metaFrame, idxVars, svPc, svOut, svOk>>

\* The records given to save_metadata: what crawl yields
MetaEntries ==
    {[path |-> <<"docs", "a.txt">>, mtime |-> 11, size |-> 100],
     [path |-> <<"docs", "z.txt">>, mtime |-> 18, size |-> 0]}

MetaEntryLists == SeqsUpTo(MetaEntries, MaxEntries)

MetaFiles ==
    {MissingFile, CorruptFile, NotListFile, UnreadableFile, BadBytesFile}
        \cup {SaveMetadata(es) : es \in MetaEntryLists}

MetadataInit ==
    /\ SnippetIdle
    /\ CrawlIdle
    /\ ExtractIdle
    /\ log_terminal_history = TRUE
    /\ history = <<>>
    /\ today = 1
    /\ logs = [d \in Days |-> MissingFile]
    /\ metadataFile \in MetaFiles
    /\ store = EmptyStore
    /\ bPc = "idle"
    /\ bOp = "none"
    /\ bLost = FALSE
    /\ bEntries = <<>>
    /\ bWriter = <<>>
    /\ bCount = 0
    /\ calls = <<>>
    /\ nSync = 0
    /\ nCrawl = 0
    /\ okViews = {}
    /\ rPc = "idle"
    /\ rQuery = <<>>
    /\ rLimit = 1
    /\ rIndex = <<>>
    /\ rSaw = None
    /\ rRet = None
    /\ svPc = "idle"
    /\ svOut = <<>>
    /\ svOk = {LoadMetadata(metadataFile)}
    /\ ldRet = None
    /\ syCall = None
    /\ builds = NoBuilds

MetadataNext ==
    \/ \E es \in MetaEntryLists : SaveMetadataBegin(es)
    \/ SaveOpen
    \/ SaveWrite
    \/ SaveFails
    \/ LoadMetadataCall

SpecMetadata == MetadataInit /\ [][MetadataNext]_vars

(***************************************************************************)
(* The history sync on its own: sync_terminal_history called again and     *)
(* again, over the days, while the shell history grows.                    *)
(***************************************************************************)
MaxHistory == 2

\* sync_terminal_history when lines 100-108 raise (the log file cannot be
\* read, or the write fails): lines 109-110 write the new entries alone.
SyncTerminalHistoryFallback(files, day, lines) ==
    LET file == files[LogPathDay(day)]
        new  == NewEntries(lines, 1, ExistingCommands(file), NowIso(day))
    IN  IF new = <<>>
        THEN [logs |-> files, ret |-> 0]
        ELSE [logs |-> [files EXCEPT ![LogPathDay(day)] = ListFile(new)],
              ret  |-> Len(new)]

syncFrame == <<snipVars, crawlVars, extVars, metaVars, concVars>>

\* sync_terminal_history(logs_dir); io says whether lines 100-108 raise
SyncCall(io) ==
    /\ LET r == IF io = "ok"
                THEN SyncTerminalHistory(logs, today, history)
                ELSE SyncTerminalHistoryFallback(logs, today, history)
       IN  /\ logs' = r.logs
           /\ syCall' = Some([before |-> logs, after |-> r.logs, day |-> today,
                              ret |-> r.ret, io |-> io])
    /\ UNCHANGED <<syncFrame, log_terminal_history, history, today, metadataFile, store,
                   buildVars, readVars>>

\* The shell appends a line to its history file.
HistoryGrows(line) ==
    /\ Len(history) < MaxHistory
    /\ history' = Append(history, line)
    /\ UNCHANGED <<syncFrame, log_terminal_history, today, logs, metadataFile, store,
                   buildVars, readVars, syncVars>>

HistoryLineChoices == {HistoryLines[i] : i \in 1..Len(HistoryLines)}

SyncLogs == InitialLogs \cup {[d \in Days |-> MissingFile]}

SyncInit ==
    /\ SnippetIdle
    /\ CrawlIdle
    /\ ExtractIdle
    /\ MetaIdle
    /\ log_terminal_history = TRUE
    /\ history \in SeqsUpTo(HistoryLineChoices, MaxHistory)
    /\ today = 1
    /\ logs \in SyncLogs
    /\ metadataFile = MissingFile
    /\ store = EmptyStore
    /\ bPc = "idle"
    /\ bOp = "none"
    /\ bLost = FALSE
    /\ bEntries = <<>>
    /\ bWriter = <<>>
    /\ bCount = 0
    /\ calls = <<>>
    /\ nSync = 0
    /\ nCrawl = 0
    /\ okViews = {}
    /\ rPc = "idle"
    /\ rQuery = <<>>
    /\ rLimit = 1
    /\ rIndex = <<>>
    /\ rSaw = None
    /\ rRet = None

SyncNext ==
    \/ \E io \in {"ok", "error"} : SyncCall(io)
    \/ \E line \in HistoryLineChoices : HistoryGrows(line)
    \/ DayTick

SpecSync == SyncInit /\ [][SyncNext]_vars

(***************************************************************************)
(* build_index on its own, on entries and logs of every kind, and the      *)
(* searches over the index it leaves.                                      *)
(***************************************************************************)
\* A mutant of FreshIndex: the index is opened, not made anew.
FreshIndexKeeps(st) == [state |-> "created", docs |-> st.docs]

\* Lines 174-181: the index in the directory after rmtree, mkdir and
\* create_in: an index with none of the documents the directory held
FreshIndex(st) == [state |-> "created", docs |-> <<>>]

\* build_index(entries), lines 168-208, as one step
BuildIndexCall ==
    /\ bPc = "idle"
    /\ calls = <<>>
    /\ LET cmds == LoadCommands(logs)
           docs == FileDocs(bEntries, 1) \o CommandDocs(cmds, 0)
       IN  IF BuildRaises(bEntries, cmds)
           THEN /\ store' = FreshIndex(store)
                /\ bWriter' = <<>>
                /\ bCount' = 0
                /\ calls' = <<Call("build", None, <<>>)>>
           ELSE /\ store' = [state |-> "committed", docs |-> FreshIndex(store).docs \o docs]
                /\ bWriter' = docs
                /\ bCount' = Len(docs)
                /\ calls' = <<Call("build", Some(Len(docs)), docs)>>
    /\ okViews' = {View(store')}
    /\ bOp' = "build"
    /\ bLost' = (store.state = "missing")
    /\ UNCHANGED <<idxFrame, log_terminal_history, history, today, logs, metadataFile,
                   bPc, bEntries, nSync, nCrawl, readVars>>

FileEntry(path) == [path |-> path, mtime |-> 11, size |-> 100]

\* Entries as crawl yields them and as a snapshot may hold them: a text
\* file, a file with no text, a record with no path, a file whose document
\* is refused, a file whose extraction raises, a value that is no record
BuildEntryChoices ==
    {FileEntry(<<"docs", "a.txt">>),
     FileEntry(<<"docs", "sub", "d.docx">>),
     FileEntry(<<>>),
     FileEntry(<<"docs", "w.txt">>),
     FileEntry(<<"docs", "enc.txt">>),
     NotARecord}

BuildLogChoices ==
    {MissingFile,
     OldLog,
     ListFile(<< LogItem("command", <<"T">>, <<SP, "l", "s">>),
                 LogItem("command", <<"W">>, <<"l", "s">>) >>),
     ListFile(<< LogItem("command", <<"T">>, NotText) >>)}

BuildQueries == {<<"a">>, <<"b">>, <<"l", "s">>}

\* The index an earlier build left, of a file and a command
OldIndex ==
    [state |-> "committed",
     docs  |-> << [path |-> <<"docs", "z.txt">>, result_type |-> "file",
                   content |-> <<"l", "s", SP, "a">>],
                  [path |-> CommandId(<<"T">>, 7), result_type |-> "command",
                   content |-> <<"b">>] >>]

BuildInit ==
    /\ SnippetIdle
    /\ CrawlIdle
    /\ ExtractIdle
    /\ MetaIdle
    /\ log_terminal_history = TRUE
    /\ history = <<>>
    /\ today = 1
    /\ \E f \in BuildLogChoices : logs = [d \in Days |-> IF d = 1 THEN f ELSE MissingFile]
    /\ metadataFile = MissingFile
    /\ store \in {MissingStore, OldIndex}
    /\ bPc = "idle"
    /\ bOp = "none"
    /\ bLost = FALSE
    /\ bEntries \in SeqsUpTo(BuildEntryChoices, MaxEntries)
    /\ bWriter = <<>>
    /\ bCount = 0
    /\ calls = <<>>
    /\ nSync = 0
    /\ nCrawl = 0
    /\ okViews = {View(store)}
    /\ rPc = "idle"
    /\ rQuery = <<>>
    /\ rLimit = 1
    /\ rIndex = None
    /\ rSaw = None
    /\ rRet = None

BuildNext ==
    \/ BuildIndexCall
    \/ \E q \in BuildQueries, limit \in Limits : SearchIndexCall(q, limit)
    \/ SearchGetIndex
    \/ SearchSearcher

SpecBuild == BuildInit /\ [][BuildNext]_vars

(***************************************************************************)
(* Two processes in build_index at once (two full_index or rebuild_index   *)
(* calls, or the GUI and the command line).  build_index takes no lock of  *)
(* its own; ix.writer() takes Whoosh's write lock, a file in the index     *)
(* directory, and raises LockError if another writer holds it.  Removing   *)
(* the directory removes the files and the lock file of a writer that is   *)
(* open in it.                                                             *)
(***************************************************************************)
Builders == {1, 2}

concFrame == <<snipVars, crawlVars, extVars, metaVars, syncVars, log_terminal_history,
               history, today, logs, metadataFile, buildVars, readVars>>

\* entries, as each process was given them
BuilderEntries(p) ==
    IF p = 1
    THEN <<FileEntry(<<"docs", "a.txt">>)>>
    ELSE <<FileEntry(<<"docs", "a.txt">>), FileEntry(<<"docs", "b.PDF">>)>>

\* The documents build_index adds for process p, lines 183-206
DocsOfBuild(p) == FileDocs(BuilderEntries(p), 1) \o CommandDocs(LoadCommands(logs), 0)

\* An index whose table of contents names segment files that are not there
BrokenStore == [state |-> "broken", docs |-> <<>>]

\* Another process holds the write lock: its writer is open and its lock
\* file is the one in the directory
LockHeldByOther(p) ==
    \E q \in Builders \ {p} : builds[q].owns /\ builds[q].pc \in {"write", "commit"}

\* build_index is called
ConcBegin(p) ==
    /\ builds[p].pc = "idle"
    /\ builds' = [builds EXCEPT ![p].pc = "clear"]
    /\ UNCHANGED <<concFrame, store>>

\* Lines 174-178: mkdir, rmtree, mkdir.  Whatever another process has in the
\* directory is removed with it.
ConcClear(p) ==
    /\ builds[p].pc = "clear"
    /\ store' = EmptyStore
    /\ builds' = [q \in Builders |->
                     IF q = p THEN [builds[q] EXCEPT !.pc = "create"]
                              ELSE [builds[q] EXCEPT !.owns = FALSE]]
    /\ UNCHANGED concFrame

\* Line 177 where an open file cannot be removed: rmtree raises while the
\* other writer has its files open, with the table of contents removed or not.
ConcClearRaises(p) ==
    /\ builds[p].pc = "clear"
    /\ \E q \in Builders \ {p} : builds[q].owns
    /\ store' \in {store, EmptyStore}
    /\ builds' = [builds EXCEPT ![p].pc = "raised"]
    /\ UNCHANGED concFrame

\* Line 180: create_in writes a table of contents of no segment
ConcCreate(p) ==
    /\ builds[p].pc = "create"
    /\ store' = FreshIndex(store)
    /\ builds' = [builds EXCEPT ![p].pc = "writer"]
    /\ UNCHANGED concFrame

\* Line 181: ix.writer() takes the write lock or raises LockError, and reads
\* the table of contents: the segments there are the ones its commit keeps.
ConcWriter(p) ==
    /\ builds[p].pc = "writer"
    /\ IF LockHeldByOther(p) \/ store.state \notin {"created", "committed"}
       THEN builds' = [builds EXCEPT ![p].pc = "raised"]
       ELSE builds' = [builds EXCEPT ![p].pc = "write", ![p].owns = TRUE,
                                     ![p].base = store.docs]
    /\ UNCHANGED <<concFrame, store>>

\* Lines 183-206: the documents go to the writer's files
ConcWrite(p) ==
    /\ builds[p].pc = "write"
    /\ builds' = [builds EXCEPT ![p].pc = "commit"]
    /\ UNCHANGED <<concFrame, store>>

\* Line 207: commit writes the table of contents of the segments the writer
\* began with and its own, and releases the lock
ConcCommit(p) ==
    /\ builds[p].pc = "commit"
    /\ builds[p].owns
    /\ store' = [state |-> "committed", docs |-> builds[p].base \o DocsOfBuild(p)]
    /\ builds' = [builds EXCEPT ![p].pc = "done", ![p].owns = FALSE]
    /\ UNCHANGED concFrame

\* Line 207 after the writer's files were removed: commit raises, or writes a
\* table of contents that names them.
ConcCommitLost(p) ==
    /\ builds[p].pc = "commit"
    /\ ~builds[p].owns
    /\ \/ store' = store /\ builds' = [builds EXCEPT ![p].pc = "raised"]
       \/ store' = BrokenStore /\ builds' = [builds EXCEPT ![p].pc = "done"]
    /\ UNCHANGED concFrame

ConcInit ==
    /\ SnippetIdle
    /\ CrawlIdle
    /\ ExtractIdle
    /\ svPc = "idle"
    /\ svOut = <<>>
    /\ svOk = {}
    /\ ldRet = None
    /\ syCall = None
    /\ log_terminal_history = TRUE
    /\ history = <<>>
    /\ today = 1
    /\ logs \in InitialLogs
    /\ metadataFile = MissingFile
    /\ store \in {MissingStore, OldIndex}
    /\ bPc = "idle"
    /\ bOp = "none"
    /\ bLost = FALSE
    /\ bEntries = <<>>
    /\ bWriter = <<>>
    /\ bCount = 0
    /\ calls = <<>>
    /\ nSync = 0
    /\ nCrawl = 0
    /\ okViews = {}
    /\ rPc = "idle"
    /\ rQuery = <<>>
    /\ rLimit = 1
    /\ rIndex = <<>>
    /\ rSaw = None
    /\ rRet = None
    /\ builds = [p \in Builders |-> [pc |-> "idle", owns |-> FALSE, base |-> <<>>]]

ConcNext ==
    \/ \E p \in Builders : ConcBegin(p)
    \/ \E p \in Builders : ConcClear(p)
    \/ \E p \in Builders : ConcClearRaises(p)
    \/ \E p \in Builders : ConcCreate(p)
    \/ \E p \in Builders : ConcWriter(p)
    \/ \E p \in Builders : ConcWrite(p)
    \/ \E p \in Builders : ConcCommit(p)
    \/ \E p \in Builders : ConcCommitLost(p)

SpecConcurrent == ConcInit /\ [][ConcNext]_vars

(***************************************************************************)
(* The hits the snippet claims are checked on: stored contents of every    *)
(* length around SNIPPET_LEN, with every short run of the alphabet at     *)
(* either end.                                                             *)
(***************************************************************************)
MaxAffix == 2

Affixes == UNION {[1..n -> Alphabet] : n \in 0..MaxAffix}

FillLens == {0} \cup ((SNIPPET_LEN - 2 * MaxAffix) .. (SNIPPET_LEN + 1))

SnippetContents ==
    {pre \o Fill("a", n) \o post : pre \in Affixes, post \in Affixes, n \in FillLens}
        \ {<<>>}

SnippetInit ==
    /\ CrawlIdle
    /\ ExtractIdle
    /\ IndexIdle
    /\ hit \in [path : {"doc"}, result_type : {"file", "command"},
                content : SnippetContents]
    /\ out = None

\* One pass of the loop body: the result tuple of the hit.
FormatHit ==
    /\ out = None
    /\ out' = Some(HitResult(hit))
    /\ UNCHANGED <<hit, snipFrame>>

SnippetNext == FormatHit

SpecSnippet == SnippetInit /\ [][SnippetNext]_vars

(***************************************************************************)
(*                              The claims                                 *)
(***************************************************************************)

\* What crawl yielded, once it has run
Yields == crawlTrace[1]

\* A directory name matches a pattern case-insensitively (the pattern trimmed).
NameMatches(name, pattern) == pattern # "" /\ Lower(name) = Lower(StripName(pattern))

MatchesSomePattern(name) ==
    \E j \in 1..Len(exclude_patterns) : NameMatches(name, exclude_patterns[j])

\* C5, as claimed: crawl never yields a file that lies under a directory whose
\* name matches an exclude pattern case-insensitively, for every directory on
\* the file's path, the configured root and its ancestors included.
C5_NoMatchingDirOnWholePath ==
    crawlTrace # None =>
        \A i \in 1..Len(Yields) :
            LET path == Yields[i].entry.path
            IN  \A k \in 1..(Len(path) - 1) : ~MatchesSomePattern(path[k])

\* C5, amended: crawl never yields, from a root, a file that lies under a
\* directory below that root whose name matches an exclude pattern
\* case-insensitively; the root itself and its ancestors are not tested.
C5_NoMatchingDirBelowRoot ==
    crawlTrace # None =>
        \A i \in 1..Len(Yields) :
            LET path   == Yields[i].entry.path
                target == FolderTarget(Yields[i].root)[1]
            IN  /\ IsPrefix(target, path)
                /\ \A k \in (Len(target) + 1)..(Len(path) - 1) :
                       ~MatchesSomePattern(path[k])

\* C5, the case: docs is crawled with the pattern node_modules, which the
\* directory docs/Node_Modules matches; files of docs are yielded.
C5_Witness ==
    /\ crawlTrace # None
    /\ folders = <<"docs">>
    /\ exclude_patterns = <<"node_modules">>
    /\ walkFails = {}
    /\ fileSize[<<"docs", "Node_Modules", "c.md">>] = 0
    /\ Len(Yields) > 0

\* The size limit of C6, in bytes, as the claim states it.
C6_Limit(name) ==
    IF Lower(Suffix(name)) \in {".docx", ".pdf"}
    THEN 10 * 1024 * 1024
    ELSE max_file_size_kb * 1024

\* C6: a file the walk of a root reaches, that is indexable, not excluded and
\* whose size can be read, is yielded from that root exactly when its size is
\* at most its limit: max_file_size_kb*1024 bytes for an ordinary extension,
\* 10*1024*1024 bytes for .docx/.pdf whatever max_file_size_kb is.
C6_YieldedIffWithinLimit ==
    crawlTrace # None =>
        \A i \in 1..Len(folders) :
            FolderTarget(folders[i]) # None =>
                LET target == FolderTarget(folders[i])[1]
                    es     == RGlob(target)
                IN  \A n \in 1..Len(es) :
                        LET parts == es[n].parts
                            name  == parts[Len(parts)]
                        IN  ( /\ target \notin walkFails
                              /\ \A m \in 1..n : es[m].parts \notin walkFails
                              /\ es[n].isFile
                              /\ Lower(Suffix(name)) \in INDEXABLE_EXTENSIONS
                              /\ \A k \in (Len(target) + 1)..Len(parts) :
                                     ~MatchesSomePattern(parts[k])
                              /\ parts \notin statFails )
                            => ( (\E y \in 1..Len(Yields) :
                                      /\ Yields[y].root = folders[i]
                                      /\ Yields[y].entry.path = parts
                                      /\ Yields[y].entry.size = fileSize[parts])
                                 <=> fileSize[parts] <= C6_Limit(name) )

\* C6, the case: a.txt and b.PDF have the same size, one byte over
\* max_file_size_kb*1024; b.PDF is yielded and a.txt is not.
C6_Witness ==
    /\ crawlTrace # None
    /\ folders = <<"docs">>
    /\ statFails = {}
    /\ fileSize[<<"docs", "a.txt">>] = max_file_size_kb * 1024 + 1
    /\ fileSize[<<"docs", "b.PDF">>] = max_file_size_kb * 1024 + 1
    /\ \E y \in 1..Len(Yields) : Yields[y].entry.path = <<"docs", "b.PDF">>
    /\ ~\E y \in 1..Len(Yields) : Yields[y].entry.path = <<"docs", "a.txt">>

\* t is r with the whitespace at both ends removed, and nothing else.
IsTrimOf(t, r) ==
    /\ t = <<>> \/ (~IsSpace(t[1]) /\ ~IsSpace(t[Len(t)]))
    /\ \E i \in 1..(Len(r) + 1) :
           /\ i + Len(t) - 1 <= Len(r)
           /\ t = SubSeq(r, i, i + Len(t) - 1)
           /\ \A k \in 1..Len(r) : (k < i \/ k > i + Len(t) - 1) => IsSpace(r[k])

FirstChars(content) == [i \in 1..Min(200, Len(content)) |-> content[i]]

NewlinesAsSpaces(s) == [i \in 1..Len(s) |-> IF s[i] = "\n" THEN " " ELSE s[i]]

\* C7, as claimed: for content of more than 200 characters the snippet is
\* exactly the first 200 characters with newlines replaced by spaces, followed
\* by "..."; for 200 characters or fewer nothing is appended.
C7_SnippetIsExactPrefix ==
    out # None =>
        LET content == hit.content
            snippet == out[1].snippet
        IN  IF Len(content) > 200
            THEN snippet = NewlinesAsSpaces(FirstChars(content)) \o <<".", ".", ".">>
            ELSE IsTrimOf(snippet, NewlinesAsSpaces(content))

\* C7, amended: for content of more than 200 characters the snippet is the
\* first 200 characters with newlines replaced by spaces and the whitespace at
\* both ends removed, followed by "..."; for 200 characters or fewer it is the
\* content so replaced and trimmed, and nothing is appended.
C7_SnippetIsTrimmedPrefix ==
    out # None =>
        LET content == hit.content
            snippet == out[1].snippet
        IN  IF Len(content) > 200
            THEN /\ Len(snippet) >= 3
                 /\ SubSeq(snippet, Len(snippet) - 2, Len(snippet)) = <<".", ".", ".">>
                 /\ IsTrimOf(SubSeq(snippet, 1, Len(snippet) - 3),
                             NewlinesAsSpaces(FirstChars(content)))
            ELSE IsTrimOf(snippet, NewlinesAsSpaces(content))

\* C7, the case: a hit whose content has more than 200 characters and begins
\* with whitespace has been formatted.
C7_Witness ==
    /\ out # None
    /\ Len(hit.content) > 200
    /\ IsSpace(hit.content[1])

\* A file with a supported document extension that no parser can open
CorruptedDocument(f) ==
    \/ Lower(f.suffix) = ".pdf" /\ f.plumber # "ok" /\ f.pypdf # "ok"
    \/ Lower(f.suffix) = ".docx" /\ f.docx # "ok"

\* C3: _read_content is total: whatever its file and whatever the operations
\* it relies on do, it returns a string and never raises, and a corrupted
\* .pdf or .docx yields the empty string.
C3_ReadContentNeverRaises ==
    rcResult # None =>
        /\ rcResult[1].kind = "str"
        /\ CorruptedDocument(rcFile) => rcResult[1].len = 0

\* C4: every extraction of a .pdf eventually returns, whichever backend ends
\* up being used, also when a page extraction never completes.
C4_PdfExtractionReturns ==
    (rcPc = "start" /\ Lower(rcFile.suffix) = ".pdf") ~> (rcPc = "returned")

(***************************************************************************)
(* The index store, the pipeline and the reader                            *)
(***************************************************************************)
Range(s) == {s[i] : i \in 1..Len(s)}

DistinctIds(docs) == \A i, j \in 1..Len(docs) : i # j => docs[i].path # docs[j].path

Succeeded(k, op) == calls[k].op = op /\ calls[k].ret # None

\* C1: what a reader gets from get_index at any point of a build, a build
\* that stopped before its commit included, is the complete previous index
\* or the complete new one, never a missing store, an empty index or a part.
C1_ReaderSeesOldOrNew == rSaw # None => rSaw[1].view \in rSaw[1].allowed

\* C2: after a full_index that completed, no two documents of the index
\* have the same id, whatever folders_to_index and the command records are.
C2_IdsUniqueAfterFullIndex ==
    \A k \in 1..Len(calls) : Succeeded(k, "full") => DistinctIds(calls[k].docs)

\* C8: two consecutive full_index calls with the same configuration, file
\* system and shell history return the same count and leave the same
\* documents, so every query gives the same results after each call.
C8_FullIndexTwiceSame ==
    \A k \in 1..(Len(calls) - 1) :
        (Succeeded(k, "full") /\ Succeeded(k + 1, "full")) =>
            /\ calls[k + 1].ret = calls[k].ret
            /\ Range(calls[k + 1].docs) = Range(calls[k].docs)
            /\ \A q \in Queries, limit \in Limits :
                   SearchResults(calls[k + 1].docs, Strip(q), limit)
                       = SearchResults(calls[k].docs, Strip(q), limit)

\* A full_index that returned, then rebuild_index as the next operation
RebuildAfterFull(i, j) ==
    /\ Succeeded(i, "full")
    /\ Succeeded(j, "rebuild")
    /\ j = i + 1

FileIds(docs) ==
    LET fs == SelectSeq(docs, LAMBDA d : d.result_type = "file")
    IN  [k \in 1..Len(fs) |-> fs[k].path]

SnapshotPaths(file) == [k \in 1..Len(file.items) |-> file.items[k].path]

\* C9: rebuild_index after a full_index that returned n, the store deleted
\* in between, returns n; the File documents of the new index are the paths
\* of the snapshot and its Command documents those of the activity logs; the
\* rebuild runs no crawl and no history sync and leaves snapshot and logs.
C9_RebuildReproducesFullIndex ==
    \A i, j \in 1..Len(calls) :
        RebuildAfterFull(i, j) =>
            /\ calls[j].ret = calls[i].ret
            /\ calls[j].meta.kind = "list"
            /\ FileIds(calls[j].docs) = SnapshotPaths(calls[j].meta)
            /\ SelectSeq(calls[j].docs, LAMBDA d : d.result_type = "command")
                   = CommandDocs(LoadCommands(calls[j].logs), 0)
            /\ calls[j].crawls = calls[i].crawls
            /\ calls[j].syncs = calls[i].syncs
            /\ calls[j].meta = calls[i].meta
            /\ calls[j].logs = calls[i].logs

\* A store deleted after a full_index of files and commands, and rebuilt
C9_Witness ==
    \E i \in 1..Len(calls) :
        /\ i + 1 <= Len(calls)
        /\ RebuildAfterFull(i, i + 1)
        /\ calls[i + 1].lost
        /\ \E d \in Range(calls[i + 1].docs) : d.result_type = "file"
        /\ \E d \in Range(calls[i + 1].docs) : d.result_type = "command"
        /\ store.state = "committed"

\* C10: search_index never raises: a blank query returns [] and opens no
\* index, a missing or unopenable store and a malformed query give [], and
\* every other search returns at most limit results.
C10_SearchNeverRaises ==
    rRet # None =>
        /\ rRet[1].kind = "list"
        /\ Len(rRet[1].items) <= rLimit
        /\ rQuery = <<>> => (rRet[1].items = <<>> /\ rSaw = None)
        /\ rQuery \in MalformedQueries => rRet[1].items = <<>>
        /\ (rSaw # None /\ rSaw[1].view = None) => rRet[1].items = <<>>

(***************************************************************************)
(* The snapshot file                                                       *)
(***************************************************************************)
\* C11: load_metadata never raises: it returns the records of a snapshot
\* file that holds a JSON array, and the empty list when the file is
\* missing, cannot be read, is not text, is not JSON or is not an array.
C11_LoadMetadataNeverRaises ==
    ldRet # None =>
        /\ ldRet[1].ret.kind = "list"
        /\ ldRet[1].ret.items =
               (IF ldRet[1].file.kind = "list" THEN ldRet[1].file.items ELSE <<>>)

\* C20: at every point of a save, a save that stops part-way included, a
\* load_metadata that returns gives the complete previous list or the
\* complete new one, never an empty or partial list in their place.
C20_LoadSeesOldOrNewSnapshot ==
    (ldRet # None /\ ldRet[1].ret.kind = "list") =>
        ldRet[1].ret.items \in ldRet[1].allowed

(***************************************************************************)
(* The history sync                                                        *)
(***************************************************************************)
\* The entries the last sync call appended to the log file of its day
Appended ==
    LET items == syCall[1].after[LogPathDay(syCall[1].day)].items
    IN  SubSeq(items, Len(items) - syCall[1].ret + 1, Len(items))

\* C12: sync_terminal_history is append-only: the entries a log file held
\* before a call are in it after the call, unchanged and in order, the new
\* entries after them, and the call returns the number of entries it added.
C12_SyncAppendsOnly ==
    syCall # None =>
        \A d \in Days :
            LET b == syCall[1].before[d]
                a == syCall[1].after[d]
            IN  /\ d # LogPathDay(syCall[1].day) => a = b
                /\ b.kind = "list" =>
                       /\ a.kind = "list"
                       /\ IsPrefix(b.items, a.items)
                       /\ d = LogPathDay(syCall[1].day) =>
                              Len(a.items) = Len(b.items) + syCall[1].ret

\* C13: no sync call appends a command that the activity logs already hold,
\* in the file of any day, and a command that the history holds several
\* times is appended once.
C13_NoCommandLoggedTwice ==
    syCall # None =>
        LET logged == LoadCommands(syCall[1].before)
        IN  /\ \A i \in 1..Len(Appended), j \in 1..Len(logged) :
                   Strip(Appended[i].command) # Strip(logged[j].command)
            /\ \A i, j \in 1..Len(Appended) :
                   i # j => Strip(Appended[i].command) # Strip(Appended[j].command)

(***************************************************************************)
(* build_index on its own                                                  *)
(***************************************************************************)
Built == calls # <<>> /\ calls[1].op = "build"

\* An entry whose document build_index can write
GoodEntry(e) ==
    /\ e # NotARecord
    /\ e.path # <<>>
    /\ ~ExtractRaises(e.path)
    /\ ~WriteFails(e.path)

\* C14: a failure on one entry never aborts build_index: the entry is
\* skipped, every other entry is written, the commit happens and a count is
\* returned.
C14_EntryFailureNeverAbortsBuild ==
    Built =>
        /\ calls[1].ret # None
        /\ store.state = "committed"
        /\ \A i \in 1..Len(bEntries) :
               GoodEntry(bEntries[i]) =>
                   \E k \in 1..Len(store.docs) : store.docs[k].path = bEntries[i].path

\* The id of the j-th command record, as build_index makes it
CommandIdOf(cmds, j) ==
    CommandId(IF cmds[j].timestamp = <<>> THEN IntStr(j - 1) ELSE cmds[j].timestamp, j - 1)

\* No document write fails
NoWriteFails ==
    /\ \A i \in 1..Len(bEntries) : ~WriteFails(bEntries[i].path)
    /\ \A j \in 1..Len(LoadCommands(logs)) : ~WriteFails(CommandIdOf(LoadCommands(logs), j))

CountOf(docs, type) == Cardinality({k \in 1..Len(docs) : docs[k].result_type = type})

NonBlankCommands ==
    Cardinality({j \in 1..Len(LoadCommands(logs)) : Strip(LoadCommands(logs)[j].command) # <<>>})

\* C16 as written: with no write failure, build_index returns the number of
\* documents committed, one File document per file entry and one Command
\* document per command that is not blank, each with non-empty content.
C16_OneDocumentPerEntry ==
    (Built /\ calls[1].ret # None /\ NoWriteFails) =>
        /\ calls[1].ret[1] = Len(store.docs)
        /\ CountOf(store.docs, "file") = Len(bEntries)
        /\ CountOf(store.docs, "command") = NonBlankCommands
        /\ \A k \in 1..Len(store.docs) : store.docs[k].content # <<>>

\* C16, amended: with no write failure, build_index returns the number of
\* documents committed, one File document per file entry whose path is not
\* empty and one Command document per command that is not blank, each with
\* non-empty content.
C16_OneDocumentPerEntryWithPath ==
    (Built /\ calls[1].ret # None /\ NoWriteFails) =>
        /\ calls[1].ret[1] = Len(store.docs)
        /\ CountOf(store.docs, "file")
               = Cardinality({i \in 1..Len(bEntries) : bEntries[i].path # <<>>})
        /\ CountOf(store.docs, "command") = NonBlankCommands
        /\ \A k \in 1..Len(store.docs) : store.docs[k].content # <<>>

\* A build of a file with no text and of commands, one of them blank
C16_Witness ==
    /\ Built
    /\ calls[1].ret # None
    /\ NoWriteFails
    /\ \E i \in 1..Len(bEntries) : ReadText(bEntries[i].path) = <<>>
    /\ \E k \in 1..Len(store.docs) : store.docs[k].content = <<SP>>
    /\ NonBlankCommands > 0
    /\ NonBlankCommands < Len(LoadCommands(logs))

\* The command record a result was built from
RecordOf(r, j) == r.path = CommandIdOf(LoadCommands(logs), j)

\* A finished search of the index that build_index left
SearchedBuilt == Built /\ rRet # None /\ rPc = "done" /\ rIndex = View(store)

\* C15 as written: copy_text is None for a File result and the stored
\* content for a Command result, and that content is the raw command text
\* of the activity-log record.
C15_CopyTextIsRawCommand ==
    (SearchedBuilt /\ rRet[1].kind = "list") =>
        \A k \in 1..Len(rRet[1].items) :
            LET r == rRet[1].items[k]
            IN  /\ r.result_type = "file" => r.copy_text = None
                /\ r.result_type = "command" =>
                       \E j \in 1..Len(LoadCommands(logs)) :
                           /\ RecordOf(r, j)
                           /\ r.copy_text = Some(LoadCommands(logs)[j].command)

\* C15, amended: copy_text is None for a File result and the stored content
\* for a Command result, and that content is the command text of the
\* activity-log record with the whitespace around it removed.
C15_CopyTextIsStrippedCommand ==
    (SearchedBuilt /\ rRet[1].kind = "list") =>
        \A k \in 1..Len(rRet[1].items) :
            LET r == rRet[1].items[k]
            IN  /\ r.result_type = "file" => r.copy_text = None
                /\ r.result_type = "command" =>
                       /\ \E d \in Range(store.docs) :
                              d.path = r.path /\ r.copy_text = Some(d.content)
                       /\ \E j \in 1..Len(LoadCommands(logs)) :
                              /\ RecordOf(r, j)
                              /\ r.copy_text = Some(Strip(LoadCommands(logs)[j].command))

\* A search that gives a file and a command whose record holds the text
\* with whitespace before it
C15_Witness ==
    /\ SearchedBuilt
    /\ rRet[1].kind = "list"
    /\ \E k \in 1..Len(rRet[1].items) : rRet[1].items[k].result_type = "file"
    /\ \E k \in 1..Len(rRet[1].items), j \in 1..Len(LoadCommands(logs)) :
           /\ rRet[1].items[k].result_type = "command"
           /\ RecordOf(rRet[1].items[k], j)
           /\ LoadCommands(logs)[j].command # Strip(LoadCommands(logs)[j].command)

\* A document made from the entries or the logs given to the build
FromInputs(d) ==
    \/ /\ d.result_type = "file"
       /\ \E i \in 1..Len(bEntries) : bEntries[i].path = d.path
    \/ /\ d.result_type = "command"
       /\ \E j \in 1..Len(LoadCommands(logs)) : d.path = CommandIdOf(LoadCommands(logs), j)

\* C17: a build is a destructive full rebuild: the index it leaves holds
\* only documents made from its own inputs, none that an earlier build left.
C17_NoStaleDocuments ==
    (Built /\ calls[1].ret # None) =>
        /\ \A k \in 1..Len(store.docs) : FromInputs(store.docs[k])
        /\ store.docs = FileDocs(bEntries, 1) \o CommandDocs(LoadCommands(logs), 0)

\* A build over the index of an earlier build whose file and command are
\* not among the inputs
C17_Witness ==
    /\ Built
    /\ calls[1].ret # None
    /\ bLost = FALSE
    /\ store.docs # <<>>
    /\ \A k \in 1..Len(OldIndex.docs) : ~FromInputs(OldIndex.docs[k])

\* C18: crawl returns, and an error of the walk is contained to the subtree
\* where it occurs: every indexable file of every root that is a directory,
\* not excluded, readable by stat, within its size limit and outside the
\* subtrees whose walk fails, is yielded from that root.
C18_WalkErrorContainedToSubtree ==
    crawlTrace # None =>
        \A i \in 1..Len(folders) :
            FolderTarget(folders[i]) # None =>
                LET target == FolderTarget(folders[i])[1]
                    es     == RGlob(target)
                IN  \A n \in 1..Len(es) :
                        LET parts == es[n].parts
                            name  == parts[Len(parts)]
                        IN  ( /\ \A w \in walkFails : ~IsPrefix(w, parts)
                              /\ es[n].isFile
                              /\ Lower(Suffix(name)) \in INDEXABLE_EXTENSIONS
                              /\ \A k \in (Len(target) + 1)..Len(parts) :
                                     ~MatchesSomePattern(parts[k])
                              /\ parts \notin statFails
                              /\ fileSize[parts] <= C6_Limit(name) )
                            => \E y \in 1..Len(Yields) :
                                   /\ Yields[y].root = folders[i]
                                   /\ Yields[y].entry.path = parts

\* The state part of C19: while the build of a full_index runs the snapshot
\* on disk holds the records the build was given, and a full_index that
\* returned indexed the files of the snapshot it wrote and the commands of
\* the logs as the sync step left them.
FullIndexInOrder ==
    /\ (bOp = "full" /\ bPc \in {"clear", "create", "write", "commit"}) =>
           /\ metadataFile.kind = "list"
           /\ metadataFile.items = bEntries
    /\ \A k \in 1..Len(calls) :
           (calls[k].op = "full" /\ calls[k].ret # None) =>
               /\ calls[k].meta.kind = "list"
               /\ FileIds(calls[k].docs) = SnapshotPaths(calls[k].meta)
               /\ SelectSeq(calls[k].docs, LAMBDA d : d.result_type = "command")
                      = CommandDocs(LoadCommands(calls[k].logs), 0)
               /\ calls[k].crawls >= 1
               /\ calls[k].syncs = IF log_terminal_history THEN calls[k].crawls ELSE 0

\* C19: full_index syncs the history only if log_terminal_history is set,
\* then crawls, persists the snapshot and builds: with the setting off no
\* sync runs and no log file changes, the commands in the logs are indexed
\* all the same, and the snapshot is on disk before the index is rebuilt and
\* holds the records the build receives.
C19_FullIndexStepOrder ==
    /\ []FullIndexInOrder
    /\ [][~log_terminal_history => (logs' = logs /\ nSync' = nSync)]_vars

\* A full_index with log_terminal_history off, a shell history to sync and
\* commands in the logs: files and commands are indexed
C19_Witness ==
    /\ ~log_terminal_history
    /\ history # <<>>
    /\ nSync = 0
    /\ \E k \in 1..Len(calls) :
           /\ calls[k].op = "full"
           /\ calls[k].ret # None
           /\ \E d \in Range(calls[k].docs) : d.result_type = "file"
           /\ \E d \in Range(calls[k].docs) : d.result_type = "command"

\* C21: the text _read_content returns is never longer than the budget of
\* 500,000 characters, whatever the type of the file, a plain-text file of
\* more than twice the budget in bytes gives the empty text, and no more
\* than the first 50 pages of a .pdf are read (wPage and mPage are the
\* number of the page to read next).
C21_ExtractedTextWithinBudget ==
    /\ wPage <= 50 + 1 /\ wParts <= 50
    /\ mPage <= 50 + 1 /\ mParts <= 50
    /\ (rcResult # None /\ rcResult[1].kind = "str") =>
           /\ rcResult[1].len <= 500000
           /\ ( /\ Lower(rcFile.suffix) \notin {".pdf", ".docx"}
                /\ rcFile.exists
                /\ rcFile.size > 2 * 500000 ) => rcResult[1].len = 0

\* Process p has removed the old storage and has not committed yet
InBuild(p) == builds[p].pc \in {"create", "writer", "write", "commit"}

\* C22: the store has a single writer: of two builds started at once, never
\* are both between removing the old storage and committing, so that none
\* removes, recreates or writes the store under the other; and once both
\* have ended the store holds exactly the documents of one of them.
C22_SingleWriter ==
    /\ ~(InBuild(1) /\ InBuild(2))
    /\ (\A p \in Builders : builds[p].pc \in {"done", "raised"}) =>
           /\ store.state = "committed"
           /\ \E p \in Builders : store.docs = DocsOfBuild(p)


====
